---- MODULE Spec2Model ----
(***************************************************************************)
(* A model of dvc/api/experiments.py: the checkpoint signal protocol       *)
(* (make_checkpoint), the scoped repository calls (exp_save, exp_show)     *)
(* and the normalization of tabulated cells (_postprocess).                *)
(***************************************************************************)
EXTENDS Integers, Sequences, FiniteSets, TLC

(***************************************************************************)
(* Bounds of the model.                                                    *)
(***************************************************************************)
\* calls of make_checkpoint the client processes make, all together
MaxCalls == 3
\* repositories (roots) on the machine; root 0 stands for "none"
NRoots == 2

\* records repo.experiments.show returns
MaxRecs == 2
\* rows of a table handed to _postprocess on its own
MaxRows == 2
\* length of the enumerated cell strings
MaxLen == 3

Procs == {1, 2}
Roots == 1..NRoots
NoRoot == 0

(***************************************************************************)
(* State of the checkpoint protocol.                                       *)
(***************************************************************************)
VARIABLES
    envCheckpoint,  \* [Procs -> BOOLEAN]: DVC_CHECKPOINT is set in p's environment
    envRoot,        \* 0..NRoots: DVC_ROOT the clients inherit (NoRoot: unset)
    cwdRoot,        \* 0..NRoots: repository enclosing the clients' cwd (NoRoot: none)
    pc,             \* [Procs -> position of p in make_checkpoint]
    rootDir,        \* [Procs -> 0..NRoots]: root_dir / signal_file of the call
    err,            \* [Procs -> error the call raised, "none" if none]
    sigExists,      \* [Roots -> BOOLEAN]: <root>/.dvc/tmp/<SIGNAL_FILE> exists
    supPc,          \* [Roots -> "watch" | "processing"]: the supervisor of the root
    deletions,      \* [Roots -> Nat]: signal files the supervisor removed
    calls,          \* [Procs -> Nat]: calls of make_checkpoint started
    returnedSup,    \* [Procs -> Nat]: supervised calls that returned
    wrote,          \* [Procs -> the steps of the write block done in this call, in order]
    checked,        \* [Procs -> BOOLEAN]: the call evaluated os.path.exists
    delSinceOpen    \* [Procs -> BOOLEAN]: the file was removed since p's open()

ckVars == <<envCheckpoint, envRoot, cwdRoot, pc, rootDir, err, sigExists, supPc,
            deletions, calls, returnedSup, wrote, checked, delSinceOpen>>

envVars == <<envCheckpoint, envRoot, cwdRoot>>

(***************************************************************************)
(* State of exp_save, exp_show and _postprocess.                           *)
(***************************************************************************)
VARIABLES
    xop,        \* "none" | "exp_save" | "exp_show": the call in progress
    xpc,        \* position in the call
    acquired,   \* times the call entered the repository context
    released,   \* times the call left (closed) the repository context
    repoOpen,   \* the repository context is open
    pending,    \* error raised inside the with block, on its way out
    thrown,     \* the error as the failing operation raised it
    xerr,       \* error that reached the caller, "none" if none
    xresult,    \* value the call returned to the caller
    records,    \* what repo.experiments.show returned
    raw,        \* td.as_dict() as handed to _postprocess
    table,      \* the list of dicts _postprocess works on (updated in place)
    retval,     \* value of the return expression (the first _postprocess result)
    passes      \* _postprocess calls made on the list

expVars == <<xop, xpc, acquired, released, repoOpen, pending, thrown,
             xerr, xresult>>

tabVars == <<records, raw, table, retval, passes>>

vars == <<ckVars, expVars, tabVars>>


(***************************************************************************)
(* Helpers of make_checkpoint.                                             *)
(***************************************************************************)
\* Repo.find_root(): the upward search from the cwd; fails when no repository
\* encloses it.
Repo_find_root(cwd) ==
    IF cwd = NoRoot THEN [ok |-> FALSE, root |-> NoRoot]
                    ELSE [ok |-> TRUE, root |-> cwd]

\* os.getenv(name, default): the variable's value, the default when unset.
os_getenv(value, default) == IF value = NoRoot THEN default ELSE value

\* os.path.join(root_dir, Repo.DVC_DIR, "tmp", SIGNAL_FILE): one file per root.
signal_file(root_dir) == root_dir

Waiting(p) == pc[p] \in {"poll", "sleep"}

\* the write block of make_checkpoint, in program order
WriteBlock == <<"open", "write", "flush", "fsync", "close">>

(***************************************************************************)
(* make_checkpoint, one action per step.                                   *)
(***************************************************************************)
\* A client process calls make_checkpoint().
Call(p) ==
    /\ pc[p] \in {"idle", "returned", "raised"}
    /\ calls[1] + calls[2] < MaxCalls
    /\ pc' = [pc EXCEPT ![p] = "getenv_checkpoint"]
    /\ calls' = [calls EXCEPT ![p] = @ + 1]
    /\ rootDir' = [rootDir EXCEPT ![p] = NoRoot]
    /\ err' = [err EXCEPT ![p] = "none"]
    /\ wrote' = [wrote EXCEPT ![p] = <<>>]
    /\ checked' = [checked EXCEPT ![p] = FALSE]
    /\ delSinceOpen' = [delSinceOpen EXCEPT ![p] = FALSE]
    /\ UNCHANGED <<envVars, expVars, tabVars, sigExists, supPc, deletions, returnedSup>>

\* Mutant of CheckSupervised: the test is inverted (is not None).
CheckSupervisedInverted(p) ==
    /\ pc[p] = "getenv_checkpoint"
    /\ pc' = [pc EXCEPT ![p] = IF envCheckpoint[p] THEN "returned" ELSE "resolve"]
    /\ UNCHANGED <<envVars, expVars, tabVars, rootDir, err, sigExists, supPc,
                   deletions, calls, returnedSup, wrote, checked, delSinceOpen>>

\* if os.getenv(DVC_CHECKPOINT) is None: return
CheckSupervised(p) ==
    /\ pc[p] = "getenv_checkpoint"
    /\ pc' = [pc EXCEPT ![p] = IF envCheckpoint[p] THEN "resolve" ELSE "returned"]
    /\ UNCHANGED <<envVars, expVars, tabVars, rootDir, err, sigExists, supPc, deletions, calls,
                   returnedSup, wrote, checked, delSinceOpen>>

\* root_dir = os.getenv(DVC_ROOT, Repo.find_root()); signal_file = join(...).
\* The default argument Repo.find_root() is evaluated before os.getenv is
\* called, whether DVC_ROOT is set or not.
ResolveRoot(p) ==
    /\ pc[p] = "resolve"
    /\ LET found == Repo_find_root(cwdRoot) IN
        IF ~found.ok
        THEN /\ pc' = [pc EXCEPT ![p] = "raised"]
             /\ err' = [err EXCEPT ![p] = "RepositoryNotFoundError"]
             /\ UNCHANGED rootDir
        ELSE /\ pc' = [pc EXCEPT ![p] = "open"]
             /\ rootDir' = [rootDir EXCEPT ![p] =
                                signal_file(os_getenv(envRoot, found.root))]
             /\ UNCHANGED err
    /\ UNCHANGED <<envVars, expVars, tabVars, sigExists, supPc, deletions, calls, returnedSup,
                   wrote, checked, delSinceOpen>>

\* builtins.open(signal_file, "w"): creates or truncates the file.
Open(p) ==
    /\ pc[p] = "open"
    /\ pc' = [pc EXCEPT ![p] = "write"]
    /\ sigExists' = [sigExists EXCEPT ![rootDir[p]] = TRUE]
    /\ wrote' = [wrote EXCEPT ![p] = <<"open">>]
    /\ delSinceOpen' = [delSinceOpen EXCEPT ![p] = FALSE]
    /\ UNCHANGED <<envVars, expVars, tabVars, rootDir, err, supPc, deletions, calls, returnedSup,
                   checked>>

\* builtins.open fails (the tmp directory is missing, no permission, ...).
OpenFails(p) ==
    /\ pc[p] = "open"
    /\ pc' = [pc EXCEPT ![p] = "raised"]
    /\ err' = [err EXCEPT ![p] = "IOError"]
    /\ UNCHANGED <<envVars, expVars, tabVars, rootDir, sigExists, supPc, deletions, calls,
                   returnedSup, wrote, checked, delSinceOpen>>

\* fobj.write("")
Write(p) ==
    /\ pc[p] = "write"
    /\ pc' = [pc EXCEPT ![p] = "flush"]
    /\ wrote' = [wrote EXCEPT ![p] = Append(@, "write")]
    /\ UNCHANGED <<envVars, expVars, tabVars, rootDir, err, sigExists, supPc,
                   deletions, calls, returnedSup, checked, delSinceOpen>>

\* Mutant of Flush: os.fsync is left out, the block is closed after the flush.
FlushNoSync(p) ==
    /\ pc[p] = "flush"
    /\ pc' = [pc EXCEPT ![p] = "close"]
    /\ wrote' = [wrote EXCEPT ![p] = Append(@, "flush")]
    /\ UNCHANGED <<envVars, expVars, tabVars, rootDir, err, sigExists, supPc,
                   deletions, calls, returnedSup, checked, delSinceOpen>>

\* fobj.flush()
Flush(p) ==
    /\ pc[p] = "flush"
    /\ pc' = [pc EXCEPT ![p] = "fsync"]
    /\ wrote' = [wrote EXCEPT ![p] = Append(@, "flush")]
    /\ UNCHANGED <<envVars, expVars, tabVars, rootDir, err, sigExists, supPc,
                   deletions, calls, returnedSup, checked, delSinceOpen>>

\* os.fsync(fobj.fileno())
Fsync(p) ==
    /\ pc[p] = "fsync"
    /\ pc' = [pc EXCEPT ![p] = "close"]
    /\ wrote' = [wrote EXCEPT ![p] = Append(@, "fsync")]
    /\ UNCHANGED <<envVars, expVars, tabVars, rootDir, err, sigExists, supPc,
                   deletions, calls, returnedSup, checked, delSinceOpen>>

\* leaving the with block closes the file
Close(p) ==
    /\ pc[p] = "close"
    /\ pc' = [pc EXCEPT ![p] = "poll"]
    /\ wrote' = [wrote EXCEPT ![p] = Append(@, "close")]
    /\ UNCHANGED <<envVars, expVars, tabVars, rootDir, err, sigExists, supPc,
                   deletions, calls, returnedSup, checked, delSinceOpen>>

\* Mutant of Poll: the loop tests the directory of the signal file, which
\* the supervisor never removes.
PollWrongPath(p) ==
    /\ pc[p] = "poll"
    /\ checked' = [checked EXCEPT ![p] = TRUE]
    /\ pc' = [pc EXCEPT ![p] = "sleep"]
    /\ UNCHANGED <<envVars, expVars, tabVars, rootDir, err, sigExists, supPc,
                   deletions, calls, returnedSup, wrote, delSinceOpen>>

\* Mutant of Poll: the wait gives up after a timeout, the file still there.
PollTimeout(p) ==
    /\ pc[p] = "poll"
    /\ checked' = [checked EXCEPT ![p] = TRUE]
    /\ \E timeout \in BOOLEAN :
        IF sigExists[rootDir[p]] /\ ~timeout
        THEN /\ pc' = [pc EXCEPT ![p] = "sleep"]
             /\ UNCHANGED returnedSup
        ELSE /\ pc' = [pc EXCEPT ![p] = "returned"]
             /\ returnedSup' = [returnedSup EXCEPT ![p] = @ + 1]
    /\ UNCHANGED <<envVars, expVars, tabVars, rootDir, err, sigExists, supPc,
                   deletions, calls, wrote, delSinceOpen>>

\* Mutant of Poll: the wait ends on a removal event rather than on the file
\* being absent at the check.
PollOnRemoval(p) ==
    /\ pc[p] = "poll"
    /\ checked' = [checked EXCEPT ![p] = TRUE]
    /\ IF ~delSinceOpen[p]
       THEN /\ pc' = [pc EXCEPT ![p] = "sleep"]
            /\ UNCHANGED returnedSup
       ELSE /\ pc' = [pc EXCEPT ![p] = "returned"]
            /\ returnedSup' = [returnedSup EXCEPT ![p] = @ + 1]
    /\ UNCHANGED <<envVars, expVars, tabVars, rootDir, err, sigExists, supPc,
                   deletions, calls, wrote, delSinceOpen>>

\* while os.path.exists(signal_file): one evaluation of the loop condition.
Poll(p) ==
    /\ pc[p] = "poll"
    /\ checked' = [checked EXCEPT ![p] = TRUE]
    /\ IF sigExists[rootDir[p]]
       THEN /\ pc' = [pc EXCEPT ![p] = "sleep"]
            /\ UNCHANGED returnedSup
       ELSE /\ pc' = [pc EXCEPT ![p] = "returned"]
            /\ returnedSup' = [returnedSup EXCEPT ![p] = @ + 1]
    /\ UNCHANGED <<envVars, expVars, tabVars, rootDir, err, sigExists, supPc, deletions, calls,
                   wrote, delSinceOpen>>

\* sleep(0.1)
Sleep(p) ==
    /\ pc[p] = "sleep"
    /\ pc' = [pc EXCEPT ![p] = "poll"]
    /\ UNCHANGED <<envVars, expVars, tabVars, rootDir, err, sigExists, supPc, deletions, calls,
                   returnedSup, wrote, checked, delSinceOpen>>

(***************************************************************************)
(* The supervisor of a root: it observes the signal file, processes the    *)
(* checkpoint and removes the file.                                        *)
(***************************************************************************)
SupObserve(r) ==
    /\ supPc[r] = "watch"
    /\ sigExists[r]
    /\ supPc' = [supPc EXCEPT ![r] = "processing"]
    /\ UNCHANGED <<envVars, expVars, tabVars, pc, rootDir, err, sigExists, deletions, calls,
                   returnedSup, wrote, checked, delSinceOpen>>

SupDelete(r) ==
    /\ supPc[r] = "processing"
    /\ supPc' = [supPc EXCEPT ![r] = "watch"]
    /\ sigExists' = [sigExists EXCEPT ![r] = FALSE]
    /\ deletions' = [deletions EXCEPT ![r] = @ + 1]
    /\ delSinceOpen' = [p \in Procs |->
                          IF rootDir[p] = r /\ wrote[p] # <<>> THEN TRUE
                          ELSE delSinceOpen[p]]
    /\ UNCHANGED <<envVars, expVars, tabVars, pc, rootDir, err, calls, returnedSup, wrote, checked>>

(***************************************************************************)
(* Cell values.  A string is a sequence of one-character strings.          *)
(***************************************************************************)
\* rich.text.Text wrapping the plain string s
Text(s) == [kind |-> "Text", s |-> s]
\* a builtin str
StrV(s) == [kind |-> "str", s |-> s]
\* a builtin int
IntV(n) == [kind |-> "int", n |-> n]
\* None
NoneV == [kind |-> "None"]
\* a finite float: (-1)^neg * m * 10^x, m not a multiple of 10 unless it is 0
FloatV(neg, m, x) == [kind |-> "float", cls |-> "finite", neg |-> neg, m |-> m, x |-> x]
\* inf, -inf, nan
FloatSpecial(cls, neg) == [kind |-> "float", cls |-> cls, neg |-> neg, m |-> 0, x |-> 0]

Digits == {"0", "1", "2", "3", "4", "5", "6", "7", "8", "9"}

DigitVal(c) ==
    CASE c = "0" -> 0 [] c = "1" -> 1 [] c = "2" -> 2 [] c = "3" -> 3
      [] c = "4" -> 4 [] c = "5" -> 5 [] c = "6" -> 6 [] c = "7" -> 7
      [] c = "8" -> 8 [] c = "9" -> 9

\* str.lower() on the letters float() reads
Lower(c) ==
    CASE c = "I" -> "i" [] c = "N" -> "n" [] c = "F" -> "f" [] c = "A" -> "a"
      [] c = "T" -> "t" [] c = "Y" -> "y" [] c = "E" -> "e" [] OTHER -> c

LowerStr(s) == [i \in 1..Len(s) |-> Lower(s[i])]

Whitespace == {" "}

\* float() skips leading and trailing whitespace
RECURSIVE LStrip(_)
LStrip(s) == IF s # <<>> /\ Head(s) \in Whitespace THEN LStrip(Tail(s)) ELSE s

RECURSIVE RStrip(_)
RStrip(s) ==
    IF s # <<>> /\ s[Len(s)] \in Whitespace THEN RStrip(SubSeq(s, 1, Len(s) - 1))
    ELSE s

Strip(s) == RStrip(LStrip(s))

\* float() accepts an underscore only between two digits and drops it
UnderscoresOk(s) ==
    \A i \in 1..Len(s) :
        s[i] = "_" => /\ i > 1 /\ i < Len(s)
                      /\ s[i - 1] \in Digits
                      /\ s[i + 1] \in Digits

RECURSIVE DropUnderscores(_)
DropUnderscores(s) ==
    IF s = <<>> THEN <<>>
    ELSE IF Head(s) = "_" THEN DropUnderscores(Tail(s))
    ELSE <<Head(s)>> \o DropUnderscores(Tail(s))

\* number of digits of s from position i on
RECURSIVE DigitRun(_, _)
DigitRun(s, i) ==
    IF i <= Len(s) /\ s[i] \in Digits THEN 1 + DigitRun(s, i + 1) ELSE 0

\* value of the digits s[i], ..., s[i + n - 1], added to the right of acc
RECURSIVE DigitsValue(_, _, _, _)
DigitsValue(s, i, n, acc) ==
    IF n = 0 THEN acc ELSE DigitsValue(s, i + 1, n - 1, acc * 10 + DigitVal(s[i]))

\* m * 10^x with the trailing zeros of m moved into the exponent
RECURSIVE Normal(_, _, _)
Normal(neg, m, x) ==
    IF m = 0 THEN FloatV(neg, 0, 0)
    ELSE IF m % 10 = 0 THEN Normal(neg, m \div 10, x + 1)
    ELSE FloatV(neg, m, x)

ParseError == [ok |-> FALSE, val |-> NoneV]

\* the end of the number: everything must have been read, and a digit seen
ParseEnd(s, neg, nDigits, mant, x, end) ==
    IF nDigits = 0 \/ end # Len(s) + 1 THEN ParseError
    ELSE [ok |-> TRUE, val |-> Normal(neg, mant, x)]

\* the digits of the exponent, from position i on; when there is none the
\* number ends before the "e" (at position at)
ParseExpDigits(s, neg, nDigits, mant, x, at, eNeg, i) ==
    IF DigitRun(s, i) = 0 THEN ParseEnd(s, neg, nDigits, mant, x, at)
    ELSE ParseEnd(s, neg, nDigits, mant,
                  x + (IF eNeg THEN 0 - DigitsValue(s, i, DigitRun(s, i), 0)
                       ELSE DigitsValue(s, i, DigitRun(s, i), 0)),
                  i + DigitRun(s, i))

\* [(e|E) [sign] digits] at position i
ParseExp(s, neg, nDigits, mant, x, i) ==
    IF i <= Len(s) /\ s[i] \in {"e", "E"}
    THEN IF i + 1 <= Len(s) /\ s[i + 1] \in {"+", "-"}
         THEN ParseExpDigits(s, neg, nDigits, mant, x, i, s[i + 1] = "-", i + 2)
         ELSE ParseExpDigits(s, neg, nDigits, mant, x, i, FALSE, i + 1)
    ELSE ParseEnd(s, neg, nDigits, mant, x, i)

\* the digits after the point, from position i on
ParseFrac(s, neg, nInt, mant, i) ==
    ParseExp(s, neg, nInt + DigitRun(s, i),
             DigitsValue(s, i, DigitRun(s, i), mant), 0 - DigitRun(s, i),
             i + DigitRun(s, i))

\* digits [. [digits]] | . digits, from position 1 on
ParseDecimal(s, neg, nInt) ==
    IF nInt + 1 <= Len(s) /\ s[nInt + 1] = "."
    THEN ParseFrac(s, neg, nInt, DigitsValue(s, 1, nInt, 0), nInt + 2)
    ELSE ParseExp(s, neg, nInt, DigitsValue(s, 1, nInt, 0), 0, nInt + 1)

\* inf | infinity | nan | a decimal number
ParseUnsigned(s, neg) ==
    IF LowerStr(s) \in {<<"i", "n", "f">>, <<"i", "n", "f", "i", "n", "i", "t", "y">>}
    THEN [ok |-> TRUE, val |-> FloatSpecial("inf", neg)]
    ELSE IF LowerStr(s) = <<"n", "a", "n">>
    THEN [ok |-> TRUE, val |-> FloatSpecial("nan", neg)]
    ELSE ParseDecimal(s, neg, DigitRun(s, 1))

\* [sign]
ParseSigned(s) ==
    IF s # <<>> /\ s[1] \in {"+", "-"} THEN ParseUnsigned(Tail(s), s[1] = "-")
    ELSE ParseUnsigned(s, FALSE)

ParseStripped(t) ==
    IF UnderscoresOk(t) THEN ParseSigned(DropUnderscores(t)) ELSE ParseError

\* float(v_str): [ok, val]; ok is FALSE where Python raises ValueError.
\* [ws] [sign] (inf | infinity | nan | digits [. [digits]] | . digits)
\*      [(e|E) [sign] digits] [ws]
ParseFloat(str) == ParseStripped(Strip(str))

\* str(v) of a rich Text: its plain string
TextPlain(v) == v.s

(***************************************************************************)
(* _postprocess.                                                           *)
(***************************************************************************)
\* Mutant of PostCell: plain strings are converted as well
\* (isinstance(v, (Text, str))).
PostCellAnyStr(v) ==
    IF v.kind \in {"Text", "str"}
    THEN LET f == ParseFloat(TextPlain(v))
         IN  IF f.ok THEN f.val ELSE StrV(TextPlain(v))
    ELSE v

\* Mutant of PostCell: a Text becomes its plain string in one call and a
\* string becomes a number only in the next.
PostCellStaged(v) ==
    IF v.kind = "Text" THEN StrV(TextPlain(v))
    ELSE IF v.kind = "str"
    THEN LET f == ParseFloat(v.s)
         IN  IF f.ok THEN f.val ELSE v
    ELSE v

\* the body of the inner loop: the value exp_row[k] holds after the iteration
PostCell(v) ==
    IF v.kind = "Text"
    THEN LET f == ParseFloat(TextPlain(v))
         IN  IF f.ok THEN f.val ELSE StrV(TextPlain(v))
    ELSE v

\* Mutant of PostRow: the row is rebuilt from its Text cells alone.
PostRowTextOnly(exp_row, todo) ==
    [k \in {c \in todo : exp_row[c].kind = "Text"} |-> PostCell(exp_row[k])]

\* for k, v in exp_row.items(): the row after the keys in todo were visited
RECURSIVE PostRow(_, _)
PostRow(exp_row, todo) ==
    IF todo = {} THEN exp_row
    ELSE LET k == CHOOSE c \in todo : TRUE
         IN  PostRow([exp_row EXCEPT ![k] = PostCell(exp_row[k])], todo \ {k})

\* for exp_row in exp_rows: ...; return exp_rows
RECURSIVE PostRows(_, _)
PostRows(exp_rows, i) ==
    IF i > Len(exp_rows) THEN exp_rows
    ELSE PostRows([exp_rows EXCEPT ![i] = PostRow(exp_rows[i], DOMAIN exp_rows[i])],
                  i + 1)

_postprocess(exp_rows) == PostRows(exp_rows, 1)

(***************************************************************************)
(* tabulate(experiments, fill_value=None) and td.as_dict(): every row gets *)
(* every column, a missing cell the fill value; rows keep their order.     *)
(***************************************************************************)
Columns(recs) == UNION {DOMAIN recs[i] : i \in 1..Len(recs)}

tabulate(recs, fill_value) ==
    [i \in 1..Len(recs) |->
        [k \in Columns(recs) |->
            IF k \in DOMAIN recs[i] THEN recs[i][k] ELSE fill_value]]

(***************************************************************************)
(* exp_save and exp_show, one action per step.                             *)
(***************************************************************************)
\* what the operations inside the with block may raise
Errors == {"ExperimentExistsError", "RevError", "OSError"}

\* what opening the repository may raise
OpenErrors == {"NotDvcRepoError"}

\* the caller calls exp_save(...) or exp_show(...)
CallExp(op) ==
    /\ xpc \in {"idle", "returned", "raised"}
    /\ xop' = op
    /\ xpc' = "open"
    /\ acquired' = 0
    /\ released' = 0
    /\ pending' = "none"
    /\ thrown' = "none"
    /\ xerr' = "none"
    /\ xresult' = <<>>
    /\ records' = <<>>
    /\ raw' = <<>>
    /\ table' = <<>>
    /\ retval' = <<>>
    /\ passes' = 0
    /\ UNCHANGED <<ckVars, repoOpen>>

\* Repo.__enter__: the repository context is acquired
Repo_enter ==
    /\ acquired' = acquired + 1
    /\ repoOpen' = TRUE

\* Repo.__exit__: the repository is closed, the error in flight is not swallowed
Repo_exit ==
    /\ released' = released + 1
    /\ repoOpen' = FALSE

\* with Repo() as repo: / with Repo.open(repo) as _repo: the context is entered
EnterRepo ==
    /\ xpc = "open"
    /\ Repo_enter
    /\ xpc' = IF xop = "exp_save" THEN "save" ELSE "show"
    /\ UNCHANGED <<ckVars, tabVars, xop, released, pending, thrown, xerr,
                   xresult>>

\* Repo() / Repo.open(repo) raises: no context was entered, the error goes up
EnterRepoFails(e) ==
    /\ xpc = "open"
    /\ xpc' = "raised"
    /\ thrown' = e
    /\ xerr' = e
    /\ UNCHANGED <<ckVars, tabVars, xop, acquired, released, repoOpen,
                   pending, xresult>>

\* return repo.experiments.save(name=..., force=..., include_untracked=...)
Save(rev) ==
    /\ xpc = "save"
    /\ xpc' = "exit"
    /\ retval' = rev
    /\ UNCHANGED <<ckVars, records, raw, table, passes, xop, acquired,
                   released, repoOpen, pending, thrown, xerr, xresult>>

\* Mutant of SaveFails: no with block, the error leaves the function at once.
SaveFailsNoExit(e) ==
    /\ xpc = "save"
    /\ xpc' = "raised"
    /\ thrown' = e
    /\ xerr' = e
    /\ UNCHANGED <<ckVars, tabVars, xop, acquired, released, repoOpen,
                   pending, xresult>>

\* repo.experiments.save raises: the with block is left through __exit__
SaveFails(e) ==
    /\ xpc = "save"
    /\ xpc' = "exit"
    /\ pending' = e
    /\ thrown' = e
    /\ UNCHANGED <<ckVars, tabVars, xop, acquired, released, repoOpen,
                   xerr, xresult>>

\* experiments = _repo.experiments.show(...)
Show(recs) ==
    /\ xpc = "show"
    /\ xpc' = "tabulate"
    /\ records' = recs
    /\ UNCHANGED <<ckVars, raw, table, retval, passes, xop, acquired,
                   released, repoOpen, pending, thrown, xerr, xresult>>

\* _repo.experiments.show raises: the with block is left through __exit__
ShowFails(e) ==
    /\ xpc = "show"
    /\ xpc' = "exit"
    /\ pending' = e
    /\ thrown' = e
    /\ UNCHANGED <<ckVars, tabVars, xop, acquired, released, repoOpen,
                   xerr, xresult>>

\* td, _ = tabulate(experiments, fill_value=None); td.as_dict()
Tabulate ==
    /\ xpc = "tabulate"
    /\ xpc' = "postprocess"
    /\ raw' = tabulate(records, NoneV)
    /\ table' = raw'
    /\ UNCHANGED <<ckVars, records, retval, passes, xop, acquired,
                   released, repoOpen, pending, thrown, xerr, xresult>>

\* tabulate raises: the with block is left through __exit__
TabulateFails(e) ==
    /\ xpc = "tabulate"
    /\ xpc' = "exit"
    /\ pending' = e
    /\ thrown' = e
    /\ UNCHANGED <<ckVars, tabVars, xop, acquired, released, repoOpen,
                   xerr, xresult>>

\* return _postprocess(td.as_dict()): the value is ready, the block is left
Postprocess ==
    /\ xpc = "postprocess"
    /\ xpc' = "exit"
    /\ table' = _postprocess(table)
    /\ retval' = table'
    /\ passes' = passes + 1
    /\ UNCHANGED <<ckVars, records, raw, xop, acquired, released,
                   repoOpen, pending, thrown, xerr, xresult>>

\* an error raised while _postprocess runs: the with block is left through
\* __exit__
PostprocessFails(e) ==
    /\ xpc = "postprocess"
    /\ xpc' = "exit"
    /\ pending' = e
    /\ thrown' = e
    /\ UNCHANGED <<ckVars, tabVars, xop, acquired, released, repoOpen,
                   xerr, xresult>>

\* leaving the with block: Repo.__exit__ closes the repository, whether the
\* block returned or raised; then the value or the error reaches the caller
ExitRepo ==
    /\ xpc = "exit"
    /\ Repo_exit
    /\ IF pending = "none"
       THEN /\ xpc' = "returned"
            /\ xresult' = retval
            /\ UNCHANGED xerr
       ELSE /\ xpc' = "raised"
            /\ xerr' = pending
            /\ UNCHANGED xresult
    /\ pending' = "none"
    /\ UNCHANGED <<ckVars, tabVars, xop, acquired, thrown>>

(***************************************************************************)
(* _postprocess on its own: applied to a table, then to its own output.    *)
(***************************************************************************)
NormOnce ==
    /\ xpc = "norm"
    /\ passes = 0
    /\ table' = _postprocess(table)
    /\ retval' = table'
    /\ passes' = 1
    /\ UNCHANGED <<ckVars, expVars, records, raw>>

NormAgain ==
    /\ xpc = "norm"
    /\ passes = 1
    /\ table' = _postprocess(table)
    /\ passes' = 2
    /\ UNCHANGED <<ckVars, expVars, records, raw, retval>>

(***************************************************************************)
(* Inputs.                                                                 *)
(***************************************************************************)
Alphabet == {"1", ".", "-", "x"}

\* strings beyond the enumerated ones: the spec's examples, exponents, zeros,
\* blanks, underscores, inf and nan
Samples == {<<"0", ".", "8", "2", "5">>, <<"a", "b", "c">>,
            <<" ", "1", ".", "5", " ">>, <<" ", "x">>, <<"1", " ", "1">>,
            <<"n", "a", "n">>, <<"-", "I", "n", "f">>, <<"i", "n", "f", "x">>,
            <<"1", "_", "0">>, <<"1", "_">>,
            <<"1", "e", "1">>, <<"1", "e">>, <<"e", "1">>, <<"1", "E", "-", "1">>,
            <<"+", "1", "e", "+", "1", "0">>, <<"1", ".", "e", "1">>,
            <<"0">>, <<"-", "0">>, <<"1", "0">>, <<"1", ".", "0">>, <<"0", "1">>}

\* the strings of at most n characters of Alphabet, and the samples
Strings(n) == UNION {[1..m -> Alphabet] : m \in 0..n} \cup Samples

\* the cell values over these strings
Cells(n) == {Text(s) : s \in Strings(n)} \cup {StrV(s) : s \in Strings(n)}
                \cup {NoneV, IntV(2), FloatV(FALSE, 15, -1)}

Cols == {"a", "b"}

FillRows == {[a |-> Text(<<"x">>), b |-> IntV(2)], [a |-> Text(<<"1", ".", "5">>)]}

\* a row holding the cell v, alone or beside a plain string
ProbeRows(v) == {[a |-> v], [a |-> StrV(<<"1">>), b |-> v]}

\* what repo.experiments.show may return: records over subsets of Cols
ShowCells == {Text(<<"1", ".", "5">>), Text(<<"x">>), IntV(2)}

ShowRecords == UNION {[S -> ShowCells] : S \in SUBSET Cols}

Revs == {<<"r", "e", "v">>}

(***************************************************************************)
(* Specification of the checkpoint protocol: two client processes.         *)
(***************************************************************************)
CkInit ==
    /\ envCheckpoint \in [Procs -> BOOLEAN]
    /\ envRoot \in 0..NRoots
    /\ cwdRoot \in 0..NRoots
    /\ pc = [p \in Procs |-> "idle"]
    /\ rootDir = [p \in Procs |-> NoRoot]
    /\ err = [p \in Procs |-> "none"]
    /\ sigExists \in [Roots -> BOOLEAN]
    /\ supPc = [r \in Roots |-> "watch"]
    /\ deletions = [r \in Roots |-> 0]
    /\ calls = [p \in Procs |-> 0]
    /\ returnedSup = [p \in Procs |-> 0]
    /\ wrote = [p \in Procs |-> <<>>]
    /\ checked = [p \in Procs |-> FALSE]
    /\ delSinceOpen = [p \in Procs |-> FALSE]

\* no client process runs
CkIdle ==
    /\ envCheckpoint = [p \in Procs |-> FALSE]
    /\ envRoot = NoRoot
    /\ cwdRoot = NoRoot
    /\ pc = [p \in Procs |-> "idle"]
    /\ rootDir = [p \in Procs |-> NoRoot]
    /\ err = [p \in Procs |-> "none"]
    /\ sigExists = [r \in Roots |-> FALSE]
    /\ supPc = [r \in Roots |-> "watch"]
    /\ deletions = [r \in Roots |-> 0]
    /\ calls = [p \in Procs |-> 0]
    /\ returnedSup = [p \in Procs |-> 0]
    /\ wrote = [p \in Procs |-> <<>>]
    /\ checked = [p \in Procs |-> FALSE]
    /\ delSinceOpen = [p \in Procs |-> FALSE]

\* no call of exp_save or exp_show is in progress
ExpRest ==
    /\ xop = "none"
    /\ acquired = 0
    /\ released = 0
    /\ repoOpen = FALSE
    /\ pending = "none"
    /\ thrown = "none"
    /\ xerr = "none"
    /\ xresult = <<>>

ExpIdle == xpc = "idle" /\ ExpRest

TabIdle ==
    /\ records = <<>>
    /\ raw = <<>>
    /\ table = <<>>
    /\ retval = <<>>
    /\ passes = 0

Init == CkInit /\ ExpIdle /\ TabIdle

Client(p) ==
    \/ Call(p)
    \/ CheckSupervised(p)
    \/ ResolveRoot(p)
    \/ Open(p)
    \/ OpenFails(p)
    \/ Write(p)
    \/ Flush(p)
    \/ Fsync(p)
    \/ Close(p)
    \/ Poll(p)
    \/ Sleep(p)

Supervisor(r) == SupObserve(r) \/ SupDelete(r)

Next == (\E p \in Procs : Client(p)) \/ (\E r \in Roots : Supervisor(r))

Spec == Init /\ [][Next]_vars

(***************************************************************************)
(* One client process calling in sequence, with a supervisor that removes  *)
(* every signal file it observes, and a client that keeps running.         *)
(***************************************************************************)
InitSeq == Init /\ ~envCheckpoint[2]

\* the steps of a call once it is made
Run(p) ==
    \/ CheckSupervised(p)
    \/ ResolveRoot(p)
    \/ Open(p)
    \/ OpenFails(p)
    \/ Write(p)
    \/ Flush(p)
    \/ Fsync(p)
    \/ Close(p)
    \/ Poll(p)
    \/ Sleep(p)

NextSeq == Call(1) \/ Run(1) \/ (\E r \in Roots : Supervisor(r))

FairSpec ==
    /\ InitSeq
    /\ [][NextSeq]_vars
    /\ WF_vars(Run(1))
    /\ \A r \in Roots : WF_vars(Supervisor(r))

(***************************************************************************)
(* Properties of make_checkpoint.                                          *)
(***************************************************************************)
Other(p) == 3 - p

C1_UnsupervisedInv ==
    \A p \in Procs :
        ~envCheckpoint[p] =>
            /\ pc[p] \in {"idle", "getenv_checkpoint", "returned"}
            /\ rootDir[p] = NoRoot
            /\ wrote[p] = <<>>
            /\ ~checked[p]
            /\ err[p] = "none"

C1_UnsupervisedStep ==
    \A p \in Procs :
        (~envCheckpoint[p] /\ pc'[p] # pc[p]) =>
            /\ sigExists' = sigExists
            /\ supPc' = supPc
            /\ deletions' = deletions
            /\ pc[p] = "getenv_checkpoint" => pc'[p] = "returned"

\* C1: without DVC_CHECKPOINT a call of make_checkpoint returns at its first
\* step: it resolves no root, does none of the steps of the write block, never
\* evaluates the loop condition, raises nothing, and its steps leave every
\* signal file as it was, whether one exists and whether DVC_ROOT is set.
C1_NoOpWhenUnsupervised == []C1_UnsupervisedInv /\ [][C1_UnsupervisedStep]_vars

\* an unsupervised call returned with DVC_ROOT set and a signal file present
C1_Witness ==
    \E p \in Procs :
        /\ ~envCheckpoint[p]
        /\ pc[p] = "returned"
        /\ envRoot # NoRoot
        /\ sigExists[envRoot]

\* C2: in a supervised call a set DVC_ROOT decides the signal file and the call
\* does not raise RepositoryNotFoundError; that error is raised only when the
\* search finds no root and DVC_ROOT is unset.
C2_OverridePreferred ==
    \A p \in Procs :
        /\ (/\ envCheckpoint[p]
            /\ envRoot # NoRoot
            /\ pc[p] \notin {"idle", "getenv_checkpoint", "resolve"})
           => (err[p] # "RepositoryNotFoundError" /\ rootDir[p] = envRoot)
        /\ err[p] = "RepositoryNotFoundError"
           => (envRoot = NoRoot /\ cwdRoot = NoRoot)

C3_Step ==
    \A p \in Procs :
        /\ (pc[p] = "poll" /\ ~sigExists[rootDir[p]] /\ pc'[p] # pc[p])
           => pc'[p] = "returned"
        /\ (pc[p] = "sleep" /\ pc'[p] # pc[p]) => pc'[p] = "poll"

C4_WriteBeforePoll ==
    \A p \in Procs :
        /\ \E n \in 0..Len(WriteBlock) : wrote[p] = SubSeq(WriteBlock, 1, n)
        /\ (checked[p] \/ Waiting(p)) => wrote[p] = WriteBlock
        /\ (wrote[p] # <<>> /\ ~delSinceOpen[p]) => sigExists[rootDir[p]]

\* the client waits on a file the supervisor has observed and not yet removed
C4_Witness ==
    \E p \in Procs :
        /\ pc[p] = "sleep"
        /\ ~delSinceOpen[p]
        /\ supPc[rootDir[p]] = "processing"

C9_Inv ==
    \A p \in Procs :
        /\ (envCheckpoint[p] /\ pc[p] = "returned")
           => (delSinceOpen[p] /\ checked[p])
        /\ calls[Other(p)] = 0
           => \A r \in Roots : rootDir[p] = r => returnedSup[p] <= deletions[r]

C9_Step ==
    \A r \in Roots :
        (sigExists[r] /\ ~sigExists'[r])
            => (deletions'[r] = deletions[r] + 1 /\ pc' = pc)

\* C9: a signal file disappears only in a step of the supervisor; a supervised
\* call returns only after the supervisor removed the file since the call's
\* open; a process calling alone has returned from no more supervised calls
\* than the supervisor has removed files.
C9_OnlySupervisorReleases == []C9_Inv /\ [][C9_Step]_vars

\* one process alone returned from two supervised calls after two removals
C9_Witness ==
    /\ calls[2] = 0
    /\ pc[1] = "returned"
    /\ returnedSup[1] = 2
    /\ rootDir[1] # NoRoot
    /\ deletions[rootDir[1]] = 2

C10_Inv ==
    \A p, q \in Procs :
        (wrote[p] # <<>> /\ wrote[q] # <<>>) => rootDir[p] = rootDir[q]

C10_Step ==
    \A p \in Procs :
        /\ (envCheckpoint[p] /\ pc[p] # "returned" /\ pc'[p] = "returned")
           => ~sigExists[rootDir[p]]
        /\ (pc[p] = "poll" /\ sigExists[rootDir[p]] /\ pc'[p] # pc[p])
           => pc'[p] = "sleep"

\* C10: two supervised processes of one root write the same signal file; each
\* returns only at a check that finds the file absent, and a check that finds
\* it present (created again by the other process after a removal) goes on
\* waiting.  One removal can release both: C10_Witness.
C10_SharedSignalFile == []C10_Inv /\ [][C10_Step]_vars

\* both processes returned from their only call and the supervisor removed
\* one file
C10_Witness ==
    /\ envCheckpoint[1] /\ envCheckpoint[2]
    /\ pc[1] = "returned" /\ pc[2] = "returned"
    /\ calls[1] = 1 /\ calls[2] = 1
    /\ rootDir[1] = rootDir[2]
    /\ deletions[rootDir[1]] = 1

\* a process still waits after its file was removed and created again
C10_WaitsAfterRecreation ==
    \E p \in Procs :
        /\ pc[p] = "sleep"
        /\ delSinceOpen[p]
        /\ sigExists[rootDir[p]]
        /\ pc[Other(p)] \in {"write", "flush", "fsync", "close", "poll", "sleep"}

(***************************************************************************)
(* Specification of exp_save and exp_show.                                 *)
(***************************************************************************)
ExpInit == CkIdle /\ ExpIdle /\ TabIdle

ExpNext ==
    \/ \E op \in {"exp_save", "exp_show"} : CallExp(op)
    \/ EnterRepo
    \/ \E e \in OpenErrors : EnterRepoFails(e)
    \/ \E rev \in Revs : Save(rev)
    \/ \E e \in Errors : SaveFails(e)
    \/ \E n \in 0..MaxRecs : \E recs \in [1..n -> ShowRecords] : Show(recs)
    \/ \E e \in Errors : ShowFails(e)
    \/ Tabulate
    \/ \E e \in Errors : TabulateFails(e)
    \/ Postprocess
    \/ \E e \in Errors : PostprocessFails(e)
    \/ ExitRepo

ExpSpec == ExpInit /\ [][ExpNext]_vars

(***************************************************************************)
(* Properties of exp_save and exp_show.                                    *)
(***************************************************************************)
\* C5: a call of exp_save or exp_show enters the repository context at most
\* once and leaves it once if it entered; when the call has returned, or an
\* error raised by save, show, tabulate or _postprocess has reached the
\* caller, the context was entered once, left once and is closed, and the
\* error is the one raised.
C5_ScopedRepo ==
    /\ released <= acquired
    /\ acquired <= 1
    /\ repoOpen <=> (acquired = 1 /\ released = 0)
    /\ xpc = "returned" =>
        (acquired = 1 /\ released = 1 /\ ~repoOpen /\ xerr = "none")
    /\ xpc = "raised" =>
        (~repoOpen /\ released = acquired /\ xerr = thrown /\ xerr # "none")
    /\ (xpc = "raised" /\ xerr \in Errors) => (acquired = 1 /\ released = 1)
    /\ xpc \in {"save", "show", "tabulate", "postprocess", "exit"} => repoOpen

\* save raised inside the with block and the error reached the caller
C5_Witness ==
    /\ xop = "exp_save"
    /\ xpc = "raised"
    /\ xerr = "ExperimentExistsError"
    /\ released = 1

ScenarioRecords ==
    <<[a |-> Text(<<"1", ".", "5">>), b |-> IntV(2)], [a |-> Text(<<"x">>)]>>

ScenarioResult ==
    <<[a |-> FloatV(FALSE, 15, -1), b |-> IntV(2)],
      [a |-> StrV(<<"x">>), b |-> NoneV]>>

\* C8: exp_show returns one record per record of show, in the same order;
\* every record has the union of the columns as its key set, a cell missing
\* from the record is None, a cell that was not a Text is the record's value
\* and a cell that was a Text is a float or a str.
C8_TableShape ==
    (xop = "exp_show" /\ xpc = "returned") =>
        /\ Len(xresult) = Len(records)
        /\ \A i \in 1..Len(records) :
            /\ DOMAIN xresult[i] = UNION {DOMAIN records[j] : j \in 1..Len(records)}
            /\ \A k \in DOMAIN xresult[i] :
                IF k \notin DOMAIN records[i] THEN xresult[i][k] = NoneV
                ELSE IF records[i][k].kind = "Text"
                THEN xresult[i][k].kind \in {"float", "str"}
                ELSE xresult[i][k] = records[i][k]
        /\ records = ScenarioRecords => xresult = ScenarioResult

\* exp_show returned the result of the records with different columns
C8_Witness ==
    /\ xop = "exp_show"
    /\ xpc = "returned"
    /\ records = ScenarioRecords
    /\ xresult = ScenarioResult

(***************************************************************************)
(* Properties of _postprocess.                                             *)
(***************************************************************************)
\* C6: after _postprocess every cell that was a Text is the float its plain
\* string parses to, or that plain string as a str when it does not parse;
\* every other cell is what it was.  Text("0.825") becomes 0.825, Text("abc")
\* becomes "abc".
C6_TypeRule ==
    passes >= 1 =>
        /\ Len(retval) = Len(raw)
        /\ \A i \in 1..Len(raw) :
            /\ DOMAIN retval[i] = DOMAIN raw[i]
            /\ \A k \in DOMAIN raw[i] :
                LET v == raw[i][k]
                    o == retval[i][k]
                IN  /\ v.kind # "Text" => o = v
                    /\ v.kind = "Text" =>
                        /\ o.kind \in {"float", "str"}
                        /\ o.kind = "float" <=> ParseFloat(v.s).ok
                        /\ o.kind = "float" => o = ParseFloat(v.s).val
                        /\ o.kind = "str" => o.s = v.s
                    /\ v = Text(<<"0", ".", "8", "2", "5">>) => o = FloatV(FALSE, 825, -3)
                    /\ v = Text(<<"a", "b", "c">>) => o = StrV(<<"a", "b", "c">>)
                    /\ v = Text(<<"1", "e", "1">>) => o = FloatV(FALSE, 1, 1)
                    /\ v = Text(<<"1", ".", "0">>) => o = FloatV(FALSE, 1, 0)
                    /\ v = Text(<<"-", ".", "1">>) => o = FloatV(TRUE, 1, -1)
                    /\ v = Text(<<"1", "x">>) => o = StrV(<<"1", "x">>)
                    /\ v = Text(<<>>) => o = StrV(<<>>)

\* a numeric Text, a plain numeric string and a Text that is no number were
\* normalized
C6_Witness ==
    /\ passes >= 1
    /\ raw = <<[a |-> StrV(<<"1">>), b |-> Text(<<"0", ".", "8", "2", "5">>)],
               [a |-> Text(<<"x">>), b |-> IntV(2)]>>
    /\ retval = <<[a |-> StrV(<<"1">>), b |-> FloatV(FALSE, 825, -3)],
                  [a |-> StrV(<<"x">>), b |-> IntV(2)]>>

\* C7: _postprocess applied to its own output returns that output.
C7_Idempotent == passes = 2 => table = retval

\* the second call ran on a table whose Texts the first call had converted
C7_Witness ==
    /\ passes = 2
    /\ raw = <<[a |-> Text(<<"1", ".", "5">>)], [a |-> Text(<<"x">>)]>>
    /\ table = <<[a |-> FloatV(FALSE, 15, -1)], [a |-> StrV(<<"x">>)]>>

(***************************************************************************)
(* Specification of _postprocess on its own.                               *)
(***************************************************************************)
\* the table is empty, or has up to MaxRows rows: one row holds a cell of
\* Cells, the others are rows of FillRows
NormInit ==
    /\ CkIdle
    /\ ExpRest
    /\ xpc = "norm"
    /\ records = <<>>
    /\ \/ raw = <<>>
       \/ \E n \in 1..MaxRows : \E j \in 1..n : \E v \in Cells(MaxLen) :
            \E pr \in ProbeRows(v) : \E fill \in [1..n -> FillRows] :
                raw = [i \in 1..n |-> IF i = j THEN pr ELSE fill[i]]
    /\ table = raw
    /\ retval = <<>>
    /\ passes = 0

NormNext == NormOnce \/ NormAgain

NormSpec == NormInit /\ [][NormNext]_vars

====
